---- MODULE Spec2Model ----
(***************************************************************************)
(* Model of screen_manager/prompt_detection.py: the classifier that maps   *)
(* captured terminal text to a prompt state and a matched line.            *)
(* A text is a sequence of one-character strings.                          *)
(***************************************************************************)
EXTENDS Integers, Sequences, FiniteSets, TLC

VARIABLES output, state, prompt_line, ready, pc

\* The calls of get_prompt_wait_hint made so far: argument and result.
VARIABLES hint_calls

\* wait_for_command_completion: the clock, the call's arguments and locals,
\* every text manager.capture has returned, and the returned tuple.
VARIABLES now, start_time, max_wait, check_interval, captures, result

\* One ScreenSessionManager (suffix, working_dir, sessions for _sessions),
\* the screen sessions running on the machine, the session id the next
\* manager gets, and the last call with what it returned.
VARIABLES suffix, working_dir, sessions, screens, next_id, last

hintVars == <<hint_calls>>

mgrVars == <<suffix, working_dir, sessions, screens, next_id, last>>

waitVars == <<now, start_time, max_wait, check_interval, captures, result>>

vars == <<output, state, prompt_line, ready, pc, hintVars, waitVars, mgrVars>>

(* ------------------------------ bounds -------------------------------- *)

\* Largest number of fragments a captured text is put together from.
MaxParts == 4

\* Largest number of calls of get_prompt_wait_hint in one run.
MaxHintCalls == 3

\* Largest max_wait and check_interval, in clock ticks, passed to
\* wait_for_command_completion.
MaxWait == 3

MaxInterval == 2

\* Number of manager instances (command-line invocations) in one run.
MaxManagers == 3

\* Longest command list passed to send_commands.
MaxCmds == 3

(* ------------------------- texts and fragments ------------------------ *)

\* Python's None, as returned for the matched line of an empty capture.
None == <<"None">>

\* The pieces captured texts are put together from.
Fragments ==
    { <<" ">>, <<"\n">>, <<"\t">>, <<"x">>,
      <<"$">>, <<"#">>, <<">">>, <<"%">>,
      <<"i", "p", "d", "b", ">">>,
      <<"I", "n", " ", "[">>, <<"7">>, <<"]", ":">>,
      <<">", ">", ">">>, <<".", ".", ".">> }

RECURSIVE Texts(_)
Texts(n) ==
    IF n = 0 THEN { <<>> }
    ELSE LET T == Texts(n - 1)
         IN  T \cup { t \o f : t \in T, f \in Fragments }

\* Every captured text the classifier is applied to.
Inputs == Texts(MaxParts)

(* --------------------------- string helpers --------------------------- *)

\* str.isspace on one character.
IsSpace(c) == c \in {" ", "\n", "\t"}

IsDigit(c) == c \in {"0", "1", "2", "3", "4", "5", "6", "7", "8", "9"}

\* True when every character of s is whitespace (s.strip() is falsy).
IsBlank(s) == \A i \in 1..Len(s) : IsSpace(s[i])

RECURSIVE LStrip(_)
LStrip(s) ==
    IF s = <<>> THEN <<>>
    ELSE IF IsSpace(Head(s)) THEN LStrip(Tail(s)) ELSE s

RECURSIVE RStrip(_)
RStrip(s) ==
    IF s = <<>> THEN <<>>
    ELSE IF IsSpace(s[Len(s)]) THEN RStrip(SubSeq(s, 1, Len(s) - 1)) ELSE s

\* str.strip(): leading and trailing whitespace removed.
Strip(s) == RStrip(LStrip(s))

\* A split that finds no separator: the text is returned as one piece.
Split_unsplit(s) == <<s>>

\* str.split('\n'): the pieces between newlines; one piece for a text
\* without a newline, the empty text included.
RECURSIVE Split(_)
Split(s) ==
    IF \E i \in 1..Len(s) : s[i] = "\n"
    THEN LET i == CHOOSE k \in 1..Len(s) :
                     s[k] = "\n" /\ \A j \in 1..(k - 1) : s[j] # "\n"
         IN  <<SubSeq(s, 1, i - 1)>> \o Split(SubSeq(s, i + 1, Len(s)))
    ELSE <<s>>

\* sub in s
Contains(s, sub) ==
    \E i \in 1..(Len(s) - Len(sub) + 1) : SubSeq(s, i, i + Len(sub) - 1) = sub

\* s.startswith(sub)
StartsWith(s, sub) == Len(s) >= Len(sub) /\ SubSeq(s, 1, Len(sub)) = sub

(* ----------------------------- classifier ----------------------------- *)

IpdbMarker == <<"i", "p", "d", "b", ">">>

\* The substrings of the shell check: ['$ ', '# ', '> ', '% '].
ShellMarkers == { <<"$", " ">>, <<"#", " ">>, <<">", " ">>, <<"%", " ">> }

\* The character class [$#>%] of the shell check.
IsTerminator(c) == c \in {"$", "#", ">", "%"}

PythonPrompts == { <<">", ">", ">">>, <<".", ".", ".">> }

\* The marker test anchored at the first character of the line.
HasIpdb_anchored(line) == StartsWith(line, IpdbMarker)

\* 'ipdb>' in last_line
HasIpdb(line) == Contains(line, IpdbMarker)

\* re.match(r'In \[\d+\]:', last_line): anchored at the first character.
MatchIPython(line) ==
    /\ StartsWith(line, <<"I", "n", " ", "[">>)
    /\ \E k \in 5..(Len(line) - 2) :
          /\ \A j \in 5..k : IsDigit(line[j])
          /\ line[k + 1] = "]"
          /\ line[k + 2] = ":"

\* last_line.strip() in ('>>>', '...')
IsPythonPrompt_nostrip(line) == line \in PythonPrompts

IsPythonPrompt(line) == Strip(line) \in PythonPrompts

\* any(pattern in last_line for pattern in ['$ ', '# ', '> ', '% '])
HasShellMarker(line) == \E m \in ShellMarkers : Contains(line, m)

\* re.search(r'[$#>%]\s*$', last_line)
SearchShellEnd(line) ==
    \E i \in 1..Len(line) :
        /\ IsTerminator(line[i])
        /\ \A j \in (i + 1)..Len(line) : IsSpace(line[j])

\* The reversed scan for the last line with a non-blank strip(); None when
\* there is none.
RECURSIVE LastNonBlank(_)
LastNonBlank(lines) ==
    IF lines = <<>> THEN None
    ELSE IF ~IsBlank(lines[Len(lines)]) THEN lines[Len(lines)]
    ELSE LastNonBlank(SubSeq(lines, 1, Len(lines) - 1))

Result(s, l) == [state |-> s, prompt_line |-> l]

\* The pattern tests on the line found, in the order of the code.
Classify_ipython_first(last_line) ==
    IF MatchIPython(last_line) THEN Result("ipython", last_line)
    ELSE IF HasIpdb(last_line) THEN Result("ipdb", last_line)
    ELSE IF IsPythonPrompt(last_line) THEN Result("python", last_line)
    ELSE IF HasShellMarker(last_line) /\ SearchShellEnd(last_line)
         THEN Result("shell", last_line)
    ELSE Result("unknown", last_line)

Classify(last_line) ==
    IF HasIpdb(last_line) THEN Result("ipdb", last_line)
    ELSE IF MatchIPython(last_line) THEN Result("ipython", last_line)
    ELSE IF IsPythonPrompt(last_line) THEN Result("python", last_line)
    ELSE IF HasShellMarker(last_line) /\ SearchShellEnd(last_line)
         THEN Result("shell", last_line)
    ELSE Result("unknown", last_line)

\* A variant that looks only at the final line of the unstripped text.
detect_prompt_state_final_line(out) ==
    IF out = <<>> THEN Result("empty", None)
    ELSE LET lines == Split(out)
             last_line == lines[Len(lines)]
         IN  IF IsBlank(last_line) THEN Result("empty", None)
             ELSE Classify(last_line)

detect_prompt_state(out) ==
    IF out = <<>> THEN Result("empty", None)
    ELSE LET lines == Split(Strip(out))
             last_line == LastNonBlank(lines)
         IN  IF last_line = None \/ last_line = <<>>
             THEN Result("empty", None)
             ELSE Classify(last_line)

is_ready_for_input_no_ipdb(out) ==
    detect_prompt_state(out).state \in {"shell", "python", "ipython"}

is_ready_for_input(out) ==
    detect_prompt_state(out).state \in {"shell", "python", "ipython", "ipdb"}

\* The table of get_prompt_wait_hint without its last entry.
hints_without_empty ==
    [s \in {"shell", "python", "ipython", "ipdb", "unknown"} |->
        CASE s = "shell" -> "Shell commands typically complete in 0.1-2 seconds"
          [] s = "python" -> "Python commands complete immediately unless computing"
          [] s = "ipython" -> "IPython commands may take longer due to magic functions"
          [] s = "ipdb" -> "Debugger commands complete immediately"
          [] s = "unknown" -> "Cannot determine timing - wait 1-2 seconds and check output"]

hints ==
    [s \in {"shell", "python", "ipython", "ipdb", "unknown", "empty"} |->
        CASE s = "shell" -> "Shell commands typically complete in 0.1-2 seconds"
          [] s = "python" -> "Python commands complete immediately unless computing"
          [] s = "ipython" -> "IPython commands may take longer due to magic functions"
          [] s = "ipdb" -> "Debugger commands complete immediately"
          [] s = "unknown" -> "Cannot determine timing - wait 1-2 seconds and check output"
          [] s = "empty" -> "No output yet - command may still be starting"]

\* hints.get(state, "Unknown state")
get_prompt_wait_hint(s) ==
    IF s \in DOMAIN hints THEN hints[s] ELSE "Unknown state"

(* --------------------------- state machine ---------------------------- *)

\* No call of get_prompt_wait_hint, no wait_for_command_completion.
HintIdle == hint_calls = <<>>

WaitIdle ==
    /\ now = 0
    /\ start_time = 0
    /\ max_wait = 0
    /\ check_interval = 0
    /\ captures = <<>>
    /\ result = None

\* A manager as constructed with default arguments: session_name
\* "screen-manager" (written sm), session id 1, no session tracked.
IdChars == <<"1", "2", "3", "4", "5">>

SuffixOf(id) == <<"s", "m", "-", IdChars[id]>>

Cwd == <<"/", "w">>

NoCall == [op |-> "none"]

\* self._sessions = {}
NoSessions == [k \in {} |-> None]

MgrIdle ==
    /\ suffix = SuffixOf(1)
    /\ working_dir = Cwd
    /\ sessions = NoSessions
    /\ screens = {}
    /\ next_id = 2
    /\ last = NoCall

Init ==
    /\ output \in Inputs
    /\ state = "unset"
    /\ prompt_line = None
    /\ ready = FALSE
    /\ pc = "start"
    /\ HintIdle
    /\ WaitIdle
    /\ MgrIdle

\* state, prompt_line = detect_prompt_state(output)
Detect ==
    /\ pc = "start"
    /\ LET r == detect_prompt_state(output)
       IN  /\ state' = r.state
           /\ prompt_line' = r.prompt_line
    /\ pc' = "detected"
    /\ UNCHANGED <<output, ready, hintVars, waitVars, mgrVars>>

\* ready = is_ready_for_input(output)
IsReady ==
    /\ pc = "detected"
    /\ ready' = is_ready_for_input(output)
    /\ pc' = "done"
    /\ UNCHANGED <<output, state, prompt_line, hintVars, waitVars, mgrVars>>

Next == Detect \/ IsReady

Spec == Init /\ [][Next]_vars

(* ------------------------ get_prompt_wait_hint ------------------------ *)

\* The values get_prompt_wait_hint is called with: the six states and
\* strings that are no state.
HintArgs ==
    {"shell", "python", "ipython", "ipdb", "unknown", "empty",
     "", "Shell", "timeout"}

HintInit ==
    /\ output = <<>>
    /\ state = "unset"
    /\ prompt_line = None
    /\ ready = FALSE
    /\ pc = "hint"
    /\ HintIdle
    /\ WaitIdle
    /\ MgrIdle

\* hint = get_prompt_wait_hint(a)
GetHint ==
    /\ pc = "hint"
    /\ Len(hint_calls) < MaxHintCalls
    /\ \E a \in HintArgs :
          hint_calls' = Append(hint_calls,
                               [state |-> a, hint |-> get_prompt_wait_hint(a)])
    /\ UNCHANGED <<output, state, prompt_line, ready, pc, waitVars, mgrVars>>

HintNext == GetHint

HintSpec == HintInit /\ [][HintNext]_vars

(* -------------------- wait_for_command_completion --------------------- *)

\* The texts manager.capture returns: the screen content, stripped by
\* _capture_all; the empty text when the capture fails.
ScreenTexts ==
    { <<>>, <<"x">>, <<"$">>, <<">", ">", ">">>,
      <<"x", "\n", "i", "p", "d", "b", ">">> }

\* A capture or a sleep may take up to this many ticks longer than asked.
Jitter == 0..1

WaitInit ==
    /\ output = <<>>
    /\ state = "unset"
    /\ prompt_line = None
    /\ ready = FALSE
    /\ pc = "w_start"
    /\ HintIdle
    /\ MgrIdle
    /\ now = 0
    /\ start_time = 0
    /\ max_wait \in 0..MaxWait
    /\ check_interval \in 1..MaxInterval
    /\ captures = <<>>
    /\ result = None

\* start_time = time.time()
WaitStart ==
    /\ pc = "w_start"
    /\ start_time' = now
    /\ pc' = "w_test"
    /\ UNCHANGED <<output, state, prompt_line, ready, hintVars, mgrVars,
                   now, max_wait, check_interval, captures, result>>

\* while time.time() - start_time < max_wait
LoopTest ==
    /\ pc = "w_test"
    /\ pc' = IF now - start_time < max_wait THEN "w_capture" ELSE "w_timeout"
    /\ UNCHANGED <<output, state, prompt_line, ready, hintVars, mgrVars,
                   waitVars>>

\* output = manager.capture(...); state, last_line = detect_prompt_state(output)
LoopCapture ==
    /\ pc = "w_capture"
    /\ \E t \in ScreenTexts, d \in Jitter :
          /\ output' = t
          /\ captures' = Append(captures, t)
          /\ now' = now + d
          /\ state' = detect_prompt_state(t).state
          /\ prompt_line' = detect_prompt_state(t).prompt_line
    /\ pc' = "w_check"
    /\ UNCHANGED <<ready, hintVars, mgrVars,
                   start_time, max_wait, check_interval, result>>

\* A readiness test that knows the shell prompt only.
CheckReady_shell_only ==
    /\ pc = "w_check"
    /\ ready' = (detect_prompt_state(output).state = "shell")
    /\ IF ready'
       THEN /\ result' = [completed |-> TRUE, output |-> output, state |-> state]
            /\ pc' = "w_return"
       ELSE /\ result' = result
            /\ pc' = "w_sleep"
    /\ UNCHANGED <<output, state, prompt_line, hintVars, mgrVars,
                   now, start_time, max_wait, check_interval, captures>>

\* if is_ready_for_input(output): return True, output, state
CheckReady ==
    /\ pc = "w_check"
    /\ ready' = is_ready_for_input(output)
    /\ IF ready'
       THEN /\ result' = [completed |-> TRUE, output |-> output, state |-> state]
            /\ pc' = "w_return"
       ELSE /\ result' = result
            /\ pc' = "w_sleep"
    /\ UNCHANGED <<output, state, prompt_line, hintVars, mgrVars,
                   now, start_time, max_wait, check_interval, captures>>

\* A sleep that returns at once, as with check_interval = 0 on a clock that
\* does not move.
Sleep_no_advance ==
    /\ pc = "w_sleep"
    /\ now' = now
    /\ pc' = "w_test"
    /\ UNCHANGED <<output, state, prompt_line, ready, hintVars, mgrVars,
                   start_time, max_wait, check_interval, captures, result>>

\* time.sleep(check_interval)
Sleep ==
    /\ pc = "w_sleep"
    /\ \E d \in Jitter : now' = now + check_interval + d
    /\ pc' = "w_test"
    /\ UNCHANGED <<output, state, prompt_line, ready, hintVars, mgrVars,
                   start_time, max_wait, check_interval, captures, result>>

\* A timeout path that captures again but keeps the state of the loop.
Timeout_stale_state ==
    /\ pc = "w_timeout"
    /\ \E t \in ScreenTexts, d \in Jitter :
          /\ output' = t
          /\ captures' = Append(captures, t)
          /\ now' = now + d
          /\ state' = state
          /\ result' = [completed |-> FALSE, output |-> t, state |-> state]
    /\ pc' = "w_return"
    /\ UNCHANGED <<prompt_line, ready, hintVars, mgrVars,
                   start_time, max_wait, check_interval>>

\* output = manager.capture(...); state, _ = detect_prompt_state(output);
\* return False, output, state
Timeout ==
    /\ pc = "w_timeout"
    /\ \E t \in ScreenTexts, d \in Jitter :
          /\ output' = t
          /\ captures' = Append(captures, t)
          /\ now' = now + d
          /\ state' = detect_prompt_state(t).state
          /\ result' = [completed |-> FALSE, output |-> t,
                        state |-> detect_prompt_state(t).state]
    /\ pc' = "w_return"
    /\ UNCHANGED <<prompt_line, ready, hintVars, mgrVars,
                   start_time, max_wait, check_interval>>

WaitNext ==
    \/ WaitStart
    \/ LoopTest
    \/ LoopCapture
    \/ CheckReady
    \/ Sleep
    \/ Timeout

WaitSpec == WaitInit /\ [][WaitNext]_vars

\* The function runs on: a statement that can be executed is executed,
\* since every capture and every sleep returns.
WaitLiveSpec == WaitInit /\ [][WaitNext]_vars /\ WF_vars(WaitNext)

(* ------------------------ ScreenSessionManager ------------------------ *)

\* s.endswith(sub)
EndsWith(s, sub) ==
    Len(s) >= Len(sub) /\ SubSeq(s, Len(s) - Len(sub) + 1, Len(s)) = sub

\* A normalization that appends the suffix to every name.
normalize_session_name_always(sfx, name) == name \o <<"-">> \o sfx

\* _normalize_session_name
normalize_session_name(sfx, name) ==
    IF ~EndsWith(name, <<"-">> \o sfx) THEN name \o <<"-">> \o sfx ELSE name

\* _is_screen_session_running: session_name in the output of screen -ls,
\* which holds one line with the name of every running session.
is_screen_session_running(scr, session_name) ==
    \E r \in scr : Contains(r, session_name)

\* d[k] = v on a dict
Put(d, k, v) == [x \in DOMAIN d \cup {k} |-> IF x = k THEN v ELSE d[x]]

\* del d[k]
Del(d, k) == [x \in DOMAIN d \ {k} |-> d[x]]

\* f"cd '{working_dir}'"
CdCommand(wd) == <<"c", "d", " ", "'">> \o wd \o <<"'">>

\* A send_command that marks the tracked session also when the stuff fails.
send_command_mark_on_failure(sess, scr, sfx, name, command, ok) ==
    LET session_name == normalize_session_name(sfx, name)
        marked == IF session_name \in DOMAIN sess
                  THEN Put(sess, session_name,
                           [sess[session_name] EXCEPT
                               !.status = "running", !.last_command = command])
                  ELSE sess
    IN  IF ok /\ session_name \in scr
        THEN [sessions |-> marked,
              session_name |-> session_name,
              success |-> TRUE,
              stuffed |-> <<command>>]
        ELSE [sessions |-> marked,
              session_name |-> session_name,
              success |-> FALSE,
              stuffed |-> <<>>]

\* send_command.  ok: screen -X stuff exits with 0, which takes a running
\* session of that name.  stuffed: the commands put into the session.
send_command(sess, scr, sfx, name, command, ok) ==
    LET session_name == normalize_session_name(sfx, name)
    IN  IF ok /\ session_name \in scr
        THEN [sessions |->
                 IF session_name \in DOMAIN sess
                 THEN Put(sess, session_name,
                          [sess[session_name] EXCEPT
                              !.status = "running", !.last_command = command])
                 ELSE sess,
              session_name |-> session_name,
              success |-> TRUE,
              stuffed |-> <<command>>]
        ELSE [sessions |-> sess,
              session_name |-> session_name,
              success |-> FALSE,
              stuffed |-> <<>>]

\* A create_session that tracks the session under the name it was given.
create_session_keyed_by_name(sess, scr, sfx, wd, name, run_ok, cd_ok) ==
    LET session_name == normalize_session_name(sfx, name)
        session_info == [name |-> session_name,
                         working_dir |-> wd,
                         status |-> "created",
                         last_command |-> None]
        started == scr \cup {session_name}
        cd == send_command(Put(sess, name, session_info), started,
                           sfx, session_name, CdCommand(wd), cd_ok)
    IN  IF run_ok
        THEN [sessions |-> cd.sessions,
              screens |-> started,
              session_name |-> session_name,
              success |-> TRUE,
              status |-> "created",
              stuffed |-> cd.stuffed]
        ELSE [sessions |-> sess,
              screens |-> scr,
              session_name |-> session_name,
              success |-> FALSE,
              status |-> "none",
              stuffed |-> <<>>]

\* create_session.  run_ok: screen -dmS exits with 0; cd_ok: the stuff of
\* the cd command exits with 0.
create_session(sess, scr, sfx, wd, name, run_ok, cd_ok) ==
    LET session_name == normalize_session_name(sfx, name)
        session_info == [name |-> session_name,
                         working_dir |-> wd,
                         status |-> "created",
                         last_command |-> None]
        started == scr \cup {session_name}
        cd == send_command(Put(sess, session_name, session_info), started,
                           sfx, session_name, CdCommand(wd), cd_ok)
    IN  IF run_ok
        THEN [sessions |-> cd.sessions,
              screens |-> started,
              session_name |-> session_name,
              success |-> TRUE,
              status |-> "created",
              stuffed |-> cd.stuffed]
        ELSE [sessions |-> sess,
              screens |-> scr,
              session_name |-> session_name,
              success |-> FALSE,
              status |-> "none",
              stuffed |-> <<>>]

\* A cleanup that ends the screen session and keeps the tracking entry.
cleanup_session_keep(sess, scr, sfx, name, exc, quit_ok) ==
    LET session_name == normalize_session_name(sfx, name)
    IN  IF exc
        THEN [sessions |-> sess, screens |-> scr,
              session_name |-> session_name, ret |-> FALSE]
        ELSE [sessions |-> sess,
              screens |-> IF is_screen_session_running(scr, session_name)
                             /\ quit_ok
                          THEN scr \ {session_name} ELSE scr,
              session_name |-> session_name,
              ret |-> TRUE]

\* cleanup_session.  exc: running screen raises (the program is missing);
\* quit_ok: screen -X quit, whose exit status is not looked at, ends the
\* session.
cleanup_session(sess, scr, sfx, name, exc, quit_ok) ==
    LET session_name == normalize_session_name(sfx, name)
    IN  IF exc
        THEN [sessions |-> sess, screens |-> scr,
              session_name |-> session_name, ret |-> FALSE]
        ELSE [sessions |-> IF session_name \in DOMAIN sess
                           THEN Del(sess, session_name) ELSE sess,
              screens |-> IF is_screen_session_running(scr, session_name)
                             /\ quit_ok
                          THEN scr \ {session_name} ELSE scr,
              session_name |-> session_name,
              ret |-> TRUE]

\* list_sessions_info: the tracked infos.
list_sessions_info(sess) == {sess[k] : k \in DOMAIN sess}

\* The get_session_info tool of the MCP server: success when a tracked
\* info carries the normalized name.
get_session_info(sess, sfx, name) ==
    \E info \in list_sessions_info(sess) :
        info.name = normalize_session_name(sfx, name)

\* The names callers pass: base names, and the full names the manager
\* with suffix sfx returns for them.
BaseNames == { <<"a">>, <<"b", "a">> }

NamesFor(sfx) == BaseNames \cup {b \o <<"-">> \o sfx : b \in BaseNames}

\* The commands callers send: a program, a program that does not exist, a
\* blank text, and a program with surrounding blanks.
Commands == { <<"o">>, <<"n">>, <<" ">>, <<" ", "o">> }

MgrInit ==
    /\ output = <<>>
    /\ state = "unset"
    /\ prompt_line = None
    /\ ready = FALSE
    /\ pc = "mgr"
    /\ HintIdle
    /\ WaitIdle
    /\ MgrIdle

clsVars == <<output, state, prompt_line, ready, pc>>

CreateSession ==
    /\ pc = "mgr"
    /\ \E name \in NamesFor(suffix), run_ok \in BOOLEAN, cd_ok \in BOOLEAN :
          LET r == create_session(sessions, screens, suffix, working_dir,
                                  name, run_ok, cd_ok)
          IN  /\ sessions' = r.sessions
              /\ screens' = r.screens
              /\ last' = [op |-> "create_session", name |-> name,
                          session_name |-> r.session_name,
                          success |-> r.success, status |-> r.status,
                          stuffed |-> r.stuffed]
    /\ UNCHANGED <<clsVars, hintVars, waitVars, suffix, working_dir, next_id>>

SendCommand ==
    /\ pc = "mgr"
    /\ \E name \in NamesFor(suffix), command \in {<<"o">>, <<"n">>},
          ok \in BOOLEAN :
          LET r == send_command(sessions, screens, suffix, name, command, ok)
          IN  /\ sessions' = r.sessions
              /\ last' = [op |-> "send_command", name |-> name,
                          session_name |-> r.session_name,
                          success |-> r.success, stuffed |-> r.stuffed]
    /\ UNCHANGED <<clsVars, hintVars, waitVars,
                   suffix, working_dir, screens, next_id>>

CleanupSession ==
    /\ pc = "mgr"
    /\ \E name \in NamesFor(suffix), exc \in BOOLEAN, quit_ok \in BOOLEAN :
          LET r == cleanup_session(sessions, screens, suffix, name,
                                   exc, quit_ok)
          IN  /\ sessions' = r.sessions
              /\ screens' = r.screens
              /\ last' = [op |-> "cleanup_session", name |-> name,
                          session_name |-> r.session_name,
                          success |-> r.ret, raised |-> exc,
                          stuffed |-> <<>>]
    /\ UNCHANGED <<clsVars, hintVars, waitVars, suffix, working_dir, next_id>>

\* attach_session: instructions when a session of that name is running.
attach_session(scr, sfx, name) ==
    LET session_name == normalize_session_name(sfx, name)
    IN  [session_name |-> session_name,
         success |-> is_screen_session_running(scr, session_name)]

\* The working_dir arguments callers pass: omitted, or a directory.
WorkingDirs == { None, <<"/", "d">> }

\* create_or_attach_session.  wd is self.working_dir, arg the working_dir
\* argument; the manager's working_dir is put back after the creation.
create_or_attach_session(sess, scr, sfx, wd, name, arg, run_ok, cd_ok) ==
    LET session_name == normalize_session_name(sfx, name)
    IN  IF is_screen_session_running(scr, session_name)
        THEN [sessions |-> sess,
              screens |-> scr,
              working_dir |-> wd,
              session_name |-> attach_session(scr, sfx, name).session_name,
              success |-> attach_session(scr, sfx, name).success,
              action_taken |-> "attach_existing",
              stuffed |-> <<>>]
        ELSE LET r == create_session(sess, scr, sfx,
                                     IF arg # None THEN arg ELSE wd,
                                     name, run_ok, cd_ok)
             IN  [sessions |-> r.sessions,
                  screens |-> r.screens,
                  working_dir |-> wd,
                  session_name |-> r.session_name,
                  success |-> r.success,
                  action_taken |-> "create_new",
                  stuffed |-> r.stuffed]

CreateOrAttachSession ==
    /\ pc = "mgr"
    /\ \E name \in NamesFor(suffix), arg \in WorkingDirs,
          run_ok \in BOOLEAN, cd_ok \in BOOLEAN :
          LET r == create_or_attach_session(sessions, screens, suffix,
                                            working_dir, name, arg,
                                            run_ok, cd_ok)
          IN  /\ sessions' = r.sessions
              /\ screens' = r.screens
              /\ working_dir' = r.working_dir
              /\ last' = [op |-> "create_or_attach_session", name |-> name,
                          session_name |-> r.session_name,
                          success |-> r.success,
                          action_taken |-> r.action_taken,
                          running |-> screens,
                          stuffed |-> r.stuffed]
    /\ UNCHANGED <<clsVars, hintVars, waitVars, suffix, next_id>>

MgrNext ==
    \/ CreateSession
    \/ SendCommand
    \/ CleanupSession
    \/ CreateOrAttachSession

MgrSpec == MgrInit /\ [][MgrNext]_vars

(* --------------------------- send_commands ---------------------------- *)

\* The loop of send_commands from the command at position i on.  acc holds
\* the tracking, commands_sent, commands_failed and what was put into the
\* session so far; oks[i] tells whether the stuff of command i exits with 0;
\* raise_at is the position of the command whose send_command raises (screen
\* cannot be run), 0 when none does.  A result of the except branch has no
\* counts: they are written -1.
RECURSIVE send_loop(_, _, _, _, _, _, _, _, _)
send_loop(acc, scr, sfx, session_name, commands, i, oks, raise_at, stop_on_failure) ==
    IF i > Len(commands)
    THEN [sessions |-> acc.sessions,
          session_name |-> session_name,
          success |-> Len(acc.commands_failed) = 0,
          commands_sent |-> acc.commands_sent,
          commands_failed |-> acc.commands_failed,
          total_commands |-> Len(commands),
          successful_commands |-> Len(acc.commands_sent),
          failed_commands |-> Len(acc.commands_failed),
          stuffed |-> acc.stuffed,
          whole_list |-> TRUE,
          raised |-> FALSE]
    ELSE IF IsBlank(commands[i])
    THEN send_loop(acc, scr, sfx, session_name, commands, i + 1, oks,
                   raise_at, stop_on_failure)
    ELSE IF i = raise_at
    THEN [sessions |-> acc.sessions,
          session_name |-> session_name,
          success |-> FALSE,
          commands_sent |-> acc.commands_sent,
          commands_failed |-> acc.commands_failed,
          total_commands |-> 0 - 1,
          successful_commands |-> 0 - 1,
          failed_commands |-> 0 - 1,
          stuffed |-> acc.stuffed,
          whole_list |-> FALSE,
          raised |-> TRUE]
    ELSE LET command == Strip(commands[i])
             r == send_command(acc.sessions, scr, sfx, session_name,
                               command, oks[i])
         IN  IF r.success
             THEN send_loop(
                      [sessions |-> r.sessions,
                       commands_sent |-> Append(acc.commands_sent, command),
                       commands_failed |-> acc.commands_failed,
                       stuffed |-> Append(acc.stuffed,
                                          [command |-> command, index |-> i - 1])],
                      scr, sfx, session_name, commands, i + 1, oks,
                      raise_at, stop_on_failure)
             ELSE LET failed == Append(acc.commands_failed,
                                       [command |-> command, index |-> i - 1])
                  IN  IF stop_on_failure
                      THEN [sessions |-> r.sessions,
                            session_name |-> session_name,
                            success |-> FALSE,
                            commands_sent |-> acc.commands_sent,
                            commands_failed |-> failed,
                            total_commands |-> Len(commands),
                            successful_commands |-> Len(acc.commands_sent),
                            failed_commands |-> Len(failed),
                            stuffed |-> acc.stuffed,
                            whole_list |-> FALSE,
                            raised |-> FALSE]
                      ELSE send_loop(
                               [sessions |-> r.sessions,
                                commands_sent |-> acc.commands_sent,
                                commands_failed |-> failed,
                                stuffed |-> acc.stuffed],
                               scr, sfx, session_name, commands, i + 1, oks,
                               raise_at, stop_on_failure)

\* A send_commands that reports success for an empty list.
send_commands_empty_ok(sess, scr, sfx, name, commands, stop_on_failure, oks, raise_at) ==
    LET session_name == normalize_session_name(sfx, name)
    IN  IF commands = <<>>
        THEN [sessions |-> sess,
              session_name |-> session_name,
              success |-> TRUE,
              commands_sent |-> <<>>,
              commands_failed |-> <<>>,
              total_commands |-> 0,
              successful_commands |-> 0,
              failed_commands |-> 0,
              stuffed |-> <<>>,
              whole_list |-> FALSE,
              raised |-> FALSE]
        ELSE send_loop([sessions |-> sess, commands_sent |-> <<>>,
                        commands_failed |-> <<>>, stuffed |-> <<>>],
                       scr, sfx, session_name, commands, 1, oks, raise_at,
                       stop_on_failure)

\* send_commands.  The result for an empty list has neither lists nor
\* counts: they are written empty and 0.
send_commands(sess, scr, sfx, name, commands, stop_on_failure, oks, raise_at) ==
    LET session_name == normalize_session_name(sfx, name)
    IN  IF commands = <<>>
        THEN [sessions |-> sess,
              session_name |-> session_name,
              success |-> FALSE,
              commands_sent |-> <<>>,
              commands_failed |-> <<>>,
              total_commands |-> 0,
              successful_commands |-> 0,
              failed_commands |-> 0,
              stuffed |-> <<>>,
              whole_list |-> FALSE,
              raised |-> FALSE]
        ELSE send_loop([sessions |-> sess, commands_sent |-> <<>>,
                        commands_failed |-> <<>>, stuffed |-> <<>>],
                       scr, sfx, session_name, commands, 1, oks, raise_at,
                       stop_on_failure)

\* The command lists callers pass.
RECURSIVE ListsUpTo(_)
ListsUpTo(n) ==
    IF n = 0 THEN { <<>> }
    ELSE LET L == ListsUpTo(n - 1)
         IN  L \cup {Append(l, c) : l \in L, c \in Commands}

CommandLists == ListsUpTo(MaxCmds)

SendCommands ==
    /\ pc = "mgr"
    /\ last.op # "send_commands"
    /\ \E name \in NamesFor(suffix), commands \in CommandLists,
          stop_on_failure \in BOOLEAN :
          \E oks \in [1..Len(commands) -> BOOLEAN],
             raise_at \in 0..Len(commands) :
             LET r == send_commands(sessions, screens, suffix, name, commands,
                                    stop_on_failure, oks, raise_at)
             IN  /\ sessions' = r.sessions
                 /\ last' = [op |-> "send_commands", name |-> name,
                             commands |-> commands,
                             stop_on_failure |-> stop_on_failure,
                             session_name |-> r.session_name,
                             success |-> r.success,
                             commands_sent |-> r.commands_sent,
                             commands_failed |-> r.commands_failed,
                             total_commands |-> r.total_commands,
                             successful_commands |-> r.successful_commands,
                             failed_commands |-> r.failed_commands,
                             whole_list |-> r.whole_list,
                             raised |-> r.raised,
                             stuffed |-> r.stuffed]
    /\ UNCHANGED <<clsVars, hintVars, waitVars,
                   suffix, working_dir, screens, next_id>>

\* One create_session at most, then one send_commands.
SendNext == (last.op = "none" /\ CreateSession) \/ SendCommands

SendSpec == MgrInit /\ [][SendNext]_vars

\* Calls of all five operations on one manager.  send_commands is called
\* on a manager that has just created its only session under a base name,
\* or has just cleaned up and left one untracked session running, and is
\* the last call.
SendCommandsPoint ==
    /\ Cardinality(screens) = 1
    /\ last.name \in BaseNames
    /\ last.success
    /\ \/ last.op = "create_session" /\ Cardinality(DOMAIN sessions) = 1
       \/ last.op = "cleanup_session" /\ sessions = NoSessions

TrackNext ==
    \/ (last.op # "send_commands" /\ MgrNext)
    \/ (SendCommandsPoint /\ SendCommands)

TrackSpec == MgrInit /\ [][TrackNext]_vars

(* ------------------------ command-line interface ---------------------- *)

\* No command has been run yet, so no manager exists; the first manager
\* gets session id 1.
CliInit ==
    /\ output = <<>>
    /\ state = "unset"
    /\ prompt_line = None
    /\ ready = FALSE
    /\ pc = "cli"
    /\ HintIdle
    /\ WaitIdle
    /\ suffix = <<>>
    /\ working_dir = Cwd
    /\ sessions = NoSessions
    /\ screens = {}
    /\ next_id = 1
    /\ last = NoCall

\* The names given on the command line: base names and the full names
\* printed by create for the running sessions.
CliNames == BaseNames \cup screens

\* manager = ScreenSessionManager(): a fresh session id for every command.
NewManager ==
    /\ pc = "cli"
    /\ next_id <= MaxManagers
    /\ suffix' = SuffixOf(next_id)
    /\ next_id' = next_id + 1
    /\ working_dir' = Cwd
    /\ UNCHANGED <<clsVars, hintVars, waitVars>>

\* create NAME
create_command ==
    /\ NewManager
    /\ \E name \in CliNames, run_ok \in BOOLEAN, cd_ok \in BOOLEAN :
          LET r == create_session(NoSessions, screens, suffix', working_dir',
                                  name, run_ok, cd_ok)
          IN  /\ sessions' = r.sessions
              /\ screens' = r.screens
              /\ last' = [op |-> "create", name |-> name,
                          session_name |-> r.session_name,
                          success |-> r.success, running |-> screens]

\* send NAME COMMAND
send_command_cmd ==
    /\ NewManager
    /\ \E name \in CliNames, command \in {<<"o">>, <<"n">>}, ok \in BOOLEAN :
          LET r == send_command(NoSessions, screens, suffix', name, command, ok)
          IN  /\ sessions' = r.sessions
              /\ screens' = screens
              /\ last' = [op |-> "send", name |-> name,
                          session_name |-> r.session_name,
                          success |-> r.success, running |-> screens]

\* capture NAME: the hardcopy of the normalized name; the empty text when
\* there is no such session.
capture_command ==
    /\ NewManager
    /\ \E name \in CliNames :
          LET session_name == normalize_session_name(suffix', name)
          IN  /\ sessions' = NoSessions
              /\ screens' = screens
              /\ last' = [op |-> "capture", name |-> name,
                          session_name |-> session_name,
                          success |-> session_name \in screens,
                          running |-> screens]

\* attach NAME: instructions when the normalized name is running.
attach_command ==
    /\ NewManager
    /\ \E name \in CliNames :
          LET session_name == normalize_session_name(suffix', name)
          IN  /\ sessions' = NoSessions
              /\ screens' = screens
              /\ last' = [op |-> "attach", name |-> name,
                          session_name |-> session_name,
                          success |-> is_screen_session_running(screens,
                                                                session_name),
                          running |-> screens]

\* cleanup NAME
cleanup_command ==
    /\ NewManager
    /\ \E name \in CliNames, exc \in BOOLEAN, quit_ok \in BOOLEAN :
          LET r == cleanup_session(NoSessions, screens, suffix', name,
                                   exc, quit_ok)
          IN  /\ sessions' = r.sessions
              /\ screens' = r.screens
              /\ last' = [op |-> "cleanup", name |-> name,
                          session_name |-> r.session_name,
                          success |-> r.ret, running |-> screens]

CliNext ==
    \/ create_command
    \/ send_command_cmd
    \/ capture_command
    \/ attach_command
    \/ cleanup_command

CliSpec == CliInit /\ [][CliNext]_vars

(* ------------------------- terms of the claims ------------------------ *)

\* The last non-blank line of the captured text as it appears there: the
\* text is cut at its newlines and nothing else is removed.  None when
\* every line is blank.
InputLastLine == LastNonBlank(Split(output))

Called == pc \in {"detected", "done"}

ReadyStates == {"shell", "python", "ipython", "ipdb"}

\* Both parts of the shell check on the line l.
ShellPattern(l) == SearchShellEnd(l) /\ HasShellMarker(l)

\* The states whose pattern the line l satisfies.
Satisfied(l) ==
    {s \in ReadyStates :
        \/ s = "ipdb" /\ HasIpdb(l)
        \/ s = "ipython" /\ MatchIPython(l)
        \/ s = "python" /\ IsPythonPrompt(l)
        \/ s = "shell" /\ ShellPattern(l)}

\* The first state of the priority order ipdb, ipython, python, shell
\* that is in the non-empty set S.
FirstOf(S) ==
    IF "ipdb" \in S THEN "ipdb"
    ELSE IF "ipython" \in S THEN "ipython"
    ELSE IF "python" \in S THEN "python"
    ELSE "shell"

\* l ends in one terminator character followed by one space.
EndsInTerminatorSpace(l) ==
    /\ Len(l) >= 2
    /\ l[Len(l)] = " "
    /\ IsTerminator(l[Len(l) - 1])

(* ------------------------------- claims ------------------------------- *)

\* C1: when the last non-blank line of the text is a conventional shell
\* prompt (it ends in $, #, > or % followed by a space and satisfies no
\* debugger or interpreter pattern), the result is state shell with that
\* line as matched line, and is_ready_for_input is true.
C1_ShellPromptIsShell ==
    (/\ pc = "done"
     /\ InputLastLine # None
     /\ EndsInTerminatorSpace(InputLastLine)
     /\ Satisfied(InputLastLine) \subseteq {"shell"})
    => (state = "shell" /\ prompt_line = InputLastLine /\ ready)

\* C2: a last non-blank line that satisfies more than one pattern gets the
\* state of the first satisfied pattern in the order ipdb, ipython, python,
\* shell; a line containing ipdb> is always classified ipdb.
C2_FirstPatternWins ==
    (Called /\ InputLastLine # None)
    => /\ Cardinality(Satisfied(InputLastLine)) >= 2
            => state = FirstOf(Satisfied(InputLastLine))
       /\ HasIpdb(InputLastLine) => state = "ipdb"

C2_Witness ==
    /\ pc = "done"
    /\ InputLastLine # None
    /\ {"ipdb", "shell"} \subseteq Satisfied(InputLastLine)
    /\ state = "ipdb"

\* C3: a matched line that is returned is exactly the last non-blank line
\* of the input, leading and trailing whitespace unchanged.
C3_MatchedLineVerbatim ==
    (Called /\ prompt_line # None) => prompt_line = InputLastLine

\* C4: a last non-blank line matching ^In \[\d+\]: gives state ipython
\* with that line, whatever precedes the line.
C4_IPythonLine ==
    (Called /\ InputLastLine # None /\ MatchIPython(InputLastLine))
    => (state = "ipython" /\ prompt_line = InputLastLine)

\* C5: the state is python exactly when the last non-blank line, trimmed,
\* equals >>> or ...
C5_PythonIffMarker ==
    Called =>
        (state = "python"
         <=> (InputLastLine # None /\ Strip(InputLastLine) \in PythonPrompts))

C5_Witness ==
    /\ pc = "done"
    /\ state = "python"
    /\ InputLastLine # Strip(InputLastLine)
    /\ Len(output) > Len(InputLastLine)

\* C6: the state is shell exactly when the last non-blank line satisfies
\* none of the ipdb, ipython and python patterns and both parts of the
\* shell check; with only one part satisfied the state is unknown.
C6_ShellIffBothParts ==
    (Called /\ InputLastLine # None)
    => /\ state = "shell" <=> Satisfied(InputLastLine) = {"shell"}
       /\ (/\ Satisfied(InputLastLine) = {}
           /\ (SearchShellEnd(InputLastLine) \/ HasShellMarker(InputLastLine)))
          => state = "unknown"

\* C7: the result is (empty, None) exactly when every line of the input is
\* blank (the empty text included); a text with a non-whitespace character
\* never gives empty.
C7_EmptyIffAllBlank ==
    Called =>
        LET allBlank == \A i \in 1..Len(Split(output)) : IsBlank(Split(output)[i])
        IN  /\ allBlank => (state = "empty" /\ prompt_line = None)
            /\ ~allBlank => state # "empty"

C7_Witness ==
    /\ pc = "done"
    /\ state = "empty"
    /\ Len(Split(output)) >= 2
    /\ \E i \in 1..Len(output) : output[i] # "\n"

\* C8: when the last non-blank line satisfies none of the four patterns the
\* result is unknown with that line as matched line, and not ready.
C8_UnknownReportsLine ==
    (pc = "done" /\ InputLastLine # None /\ Satisfied(InputLastLine) = {})
    => (state = "unknown" /\ prompt_line = InputLastLine /\ ~ready)

\* C9: is_ready_for_input is true exactly for the states shell, python,
\* ipython and ipdb, and false for empty and unknown.
C9_ReadyIffPromptState ==
    pc = "done" =>
        /\ ready <=> state \in ReadyStates
        /\ state \in {"empty", "unknown"} => ~ready

C9_Witness ==
    /\ pc = "done"
    /\ ready
    /\ state = "ipdb"

\* C10: the matched line is absent exactly when the state is empty, and a
\* matched line that is present is not blank and holds no newline.
C10_LineAbsentIffEmpty ==
    Called =>
        /\ prompt_line = None <=> state = "empty"
        /\ prompt_line # None =>
              /\ ~IsBlank(prompt_line)
              /\ \A i \in 1..Len(prompt_line) : prompt_line[i] # "\n"

C10_Witness ==
    /\ pc = "done"
    /\ prompt_line # None
    /\ state \in {"unknown", "shell"}
    /\ \E i \in 1..Len(output) : output[i] = "\n"

C12_IPythonOnlyAnchored ==
    (Called /\ state = "ipython")
    => (InputLastLine # None /\ MatchIPython(InputLastLine))

\* The six states of the classifier.
PromptStates == {"empty", "shell", "python", "ipython", "ipdb", "unknown"}

\* C14: get_prompt_wait_hint gives each of the six states its own
\* non-empty hint, never the fallback, and gives every other value the
\* fallback "Unknown state".
C14_HintTotal ==
    \A i \in 1..Len(hint_calls) :
        LET c == hint_calls[i]
        IN  /\ c.state \in PromptStates
                => /\ c.hint # ""
                   /\ c.hint # "Unknown state"
                   /\ \A j \in 1..Len(hint_calls) :
                         hint_calls[j].hint = c.hint
                             => hint_calls[j].state = c.state
            /\ c.state \notin PromptStates => c.hint = "Unknown state"

C14_Witness ==
    /\ Len(hint_calls) = 3
    /\ hint_calls[1].state = "empty"
    /\ hint_calls[2].state = "timeout"
    /\ hint_calls[3].state = "shell"
    /\ hint_calls[2].hint = "Unknown state"

\* The classifier finds a prompt in the text t.
IsReadyText(t) == detect_prompt_state(t).state \in ReadyStates

Returned == pc = "w_return"

C16_TimeoutKeepsData ==
    Returned
    => /\ result.state = detect_prompt_state(result.output).state
       /\ ~result.completed
          => /\ Len(captures) >= 1
             /\ result.output = captures[Len(captures)]

C16_Witness ==
    /\ Returned
    /\ ~result.completed
    /\ Len(captures) >= 2
    /\ captures[1] # result.output
    /\ result.state = "unknown"

CreatingOps == {"create_session", "create_or_attach_session"}

\* C20: after cleanup_session returns True the session is not tracked:
\* list_sessions_info does not list it and get_session_info does not find
\* it.  A session enters the tracking only by a successful create_session
\* for its name; cleanup of an untracked name returns True as well.
C20_CleanupUntracks ==
    /\ [](/\ (last.op = "cleanup_session" /\ last.success)
             => /\ last.session_name \notin DOMAIN sessions
                /\ \A info \in list_sessions_info(sessions) :
                      info.name # last.session_name
                /\ ~get_session_info(sessions, suffix, last.name)
                /\ ~get_session_info(sessions, suffix, last.session_name)
          /\ (last.op = "cleanup_session" /\ ~last.raised) => last.success)
    /\ [][\A sn \in DOMAIN sessions' \ DOMAIN sessions :
             /\ last'.op \in CreatingOps
             /\ last'.success
             /\ last'.session_name = sn]_vars

C20_Witness ==
    /\ last.op = "cleanup_session"
    /\ last.success
    /\ last.session_name \in screens
    /\ DOMAIN sessions # {}

\* The running session s was created by the command create n.
CreatedFrom(s, n) ==
    \E id \in 1..MaxManagers : s = n \o <<"-">> \o SuffixOf(id)

\* C18: on the command line, send, capture, attach and cleanup with the
\* name NAME given to an earlier create, or with the full name create
\* printed, address the screen session that create started.
C18_CliSameSession ==
    last.op \in {"send", "capture", "attach", "cleanup"}
    => \A s \in last.running :
          (last.name = s \/ CreatedFrom(s, last.name))
              => last.session_name = s

\* The command c fails when the shell of the session executes it.
FailsWhenExecuted(c) == Strip(c) = <<"n">>

\* C19: with stop_on_failure = True, send_commands sends no command that
\* comes after a command of the list that failed, be it a failed send or a
\* command that fails when executed in the session.
C19_StopsAtFailingCommand ==
    (last.op = "send_commands" /\ last.stop_on_failure)
    => \A k \in 1..Len(last.stuffed) :
          \A j \in 1..last.stuffed[k].index :
              /\ ~FailsWhenExecuted(last.commands[j])
              /\ \A f \in 1..Len(last.commands_failed) :
                    last.commands_failed[f].index # j - 1

(* ------------------------------- C21 ---------------------------------- *)

\* C21: whenever cleanup_session returns True, no screen session with the
\* normalized name is running any more.
C21_CleanupTerminates ==
    (last.op = "cleanup_session" /\ last.success)
        => /\ last.session_name \notin screens
           /\ ~is_screen_session_running(screens, last.session_name)

(* ------------------------------- C22 ---------------------------------- *)

\* C22: a call that reports failure leaves the tracking as it was: a failed
\* create_session does not track the session, a failed send_command changes
\* no status and no last_command, and after a cleanup_session that returns
\* False every session tracked before is still tracked.
C22_FailureKeepsTracking ==
    [][/\ (last'.op = "create_session" /\ ~last'.success)
            => /\ sessions' = sessions
               /\ (last'.session_name \notin DOMAIN sessions
                      => last'.session_name \notin DOMAIN sessions')
       /\ (last'.op = "send_command" /\ ~last'.success)
            => /\ DOMAIN sessions' = DOMAIN sessions
               /\ \A k \in DOMAIN sessions :
                     /\ sessions'[k].status = sessions[k].status
                     /\ sessions'[k].last_command = sessions[k].last_command
       /\ (last'.op = "cleanup_session" /\ ~last'.success)
            => /\ DOMAIN sessions \subseteq DOMAIN sessions'
               /\ sessions' = sessions]_vars

\* A send_command that failed on a tracked session whose status is created.
C22_Witness ==
    /\ last.op = "send_command"
    /\ ~last.success
    /\ last.session_name \in DOMAIN sessions
    /\ sessions[last.session_name].status = "created"
    /\ sessions[last.session_name].last_command = None

(* ------------------------------- C23 ---------------------------------- *)

\* C23: create_or_attach_session creates a session (action_taken
\* create_new) exactly when no screen session with the normalized name
\* exists, and otherwise reports attach_existing for the session of that
\* name, which exists.
C23_CreateIffAbsent ==
    last.op = "create_or_attach_session"
        => /\ (last.action_taken = "create_new")
                 <=> (last.session_name \notin last.running)
           /\ (last.action_taken = "attach_existing")
                 => /\ last.session_name \in last.running
                    /\ last.session_name \in screens

(* ------------------------------- C30 ---------------------------------- *)

\* C30: right after create_session returns success, the tracked info of the
\* session has status created, the status of the returned result, and no
\* last_command.
C30_CreatedAfterCreate ==
    (last.op = "create_session" /\ last.success)
        => /\ last.session_name \in DOMAIN sessions
           /\ sessions[last.session_name].status = "created"
           /\ sessions[last.session_name].status = last.status
           /\ sessions[last.session_name].last_command = None

(* ------------------------------ capture ------------------------------- *)

MaxLines == 3

\* The lines a screen shows.
LineTexts == { <<>>, <<"a">>, <<"b">> }

\* The hardcopy files screen writes: up to n lines, joined by newlines.
RECURSIVE ContentsUpTo(_)
ContentsUpTo(n) ==
    IF n = 1 THEN LineTexts
    ELSE LET C == ContentsUpTo(n - 1)
         IN  C \cup {c \o <<"\n">> \o l : c \in C, l \in LineTexts}

\* The n_lines arguments callers pass.
LineCounts == (0 - 2)..(MaxLines + 1)

\* "\n".join(lines)
RECURSIVE Join(_)
Join(lines) ==
    IF lines = <<>> THEN <<>>
    ELSE IF Len(lines) = 1 THEN lines[1]
    ELSE lines[1] \o <<"\n">> \o Join(Tail(lines))

\* lines[start:], start counted from the end when negative.
SliceFrom(lines, start) ==
    LET from == IF start < 0
                THEN (IF Len(lines) + start < 0 THEN 0 ELSE Len(lines) + start)
                ELSE (IF start > Len(lines) THEN Len(lines) ELSE start)
    IN  SubSeq(lines, from + 1, Len(lines))

\* _capture_all: the stripped hardcopy, the empty text when screen fails.
capture_all(file, ok) == IF ok THEN Strip(file) ELSE <<>>

\* capture
capture(file, ok, n_lines) ==
    LET content == capture_all(file, ok)
        lines == Split(content)
    IN  IF n_lines = 0 - 1 THEN content
        ELSE IF n_lines > Len(lines) THEN content
        ELSE Join(SliceFrom(lines, 0 - n_lines))

\* output holds the hardcopy file of the session, result the last capture.
CaptureInit ==
    /\ output \in ContentsUpTo(MaxLines)
    /\ state = "unset"
    /\ prompt_line = None
    /\ ready = FALSE
    /\ pc = "cap"
    /\ HintIdle
    /\ WaitIdle
    /\ MgrIdle

Capture ==
    /\ pc \in {"cap", "captured"}
    /\ \E n_lines \in LineCounts, ok \in BOOLEAN :
          result' = [n_lines |-> n_lines,
                     content |-> capture_all(output, ok),
                     output |-> capture(output, ok, n_lines)]
    /\ pc' = "captured"
    /\ UNCHANGED <<output, state, prompt_line, ready, hintVars, mgrVars,
                   now, start_time, max_wait, check_interval, captures>>

CaptureNext == Capture

CaptureSpec == CaptureInit /\ [][CaptureNext]_vars

(* ------------------------------- C24 ---------------------------------- *)

\* The last n of the lines, all of them when there are fewer.
LastLines(lines, n) ==
    IF n >= Len(lines) THEN lines
    ELSE SubSeq(lines, Len(lines) - n + 1, Len(lines))

\* The number of lines of a text; the empty text has none.
LineCount(t) == IF t = <<>> THEN 0 ELSE Len(Split(t))

\* C24: capture returns all the content for n_lines = -1, and for any other
\* count N the last N lines of the content in their order, all of it when
\* the content has fewer lines, so never more than N lines.
C24_LastNLines ==
    pc = "captured"
        => /\ result.n_lines = 0 - 1 => result.output = result.content
           /\ result.n_lines >= 0
                 => /\ result.output
                          = Join(LastLines(Split(result.content),
                                           result.n_lines))
                    /\ LineCount(result.output) <= result.n_lines

(* ----------------------------- MCP server ----------------------------- *)

\* The server's shared manager, constructed in the directory Cwd.
McpInit ==
    /\ output = <<>>
    /\ state = "unset"
    /\ prompt_line = None
    /\ ready = FALSE
    /\ pc = "mcp"
    /\ HintIdle
    /\ WaitIdle
    /\ MgrIdle

\* The create_session tool: if working_dir: manager.working_dir =
\* working_dir; then manager.create_session(name).
McpCreateSession ==
    /\ pc = "mcp"
    /\ \E name \in NamesFor(suffix), arg \in WorkingDirs,
          run_ok \in BOOLEAN, cd_ok \in BOOLEAN :
          /\ working_dir' = IF arg # None THEN arg ELSE working_dir
          /\ LET r == create_session(sessions, screens, suffix, working_dir',
                                     name, run_ok, cd_ok)
             IN  /\ sessions' = r.sessions
                 /\ screens' = r.screens
                 /\ last' = [op |-> "mcp_create_session", name |-> name,
                             working_dir_arg |-> arg,
                             session_name |-> r.session_name,
                             success |-> r.success, status |-> r.status,
                             stuffed |-> r.stuffed]
    /\ UNCHANGED <<clsVars, hintVars, waitVars, suffix, next_id>>

\* The create_or_attach_session tool.
McpCreateOrAttachSession ==
    /\ pc = "mcp"
    /\ \E name \in NamesFor(suffix), arg \in WorkingDirs,
          run_ok \in BOOLEAN, cd_ok \in BOOLEAN :
          LET r == create_or_attach_session(sessions, screens, suffix,
                                            working_dir, name, arg,
                                            run_ok, cd_ok)
          IN  /\ sessions' = r.sessions
              /\ screens' = r.screens
              /\ working_dir' = r.working_dir
              /\ last' = [op |-> "mcp_create_or_attach_session",
                          name |-> name,
                          working_dir_arg |-> arg,
                          session_name |-> r.session_name,
                          success |-> r.success,
                          action_taken |-> r.action_taken,
                          stuffed |-> r.stuffed]
    /\ UNCHANGED <<clsVars, hintVars, waitVars, suffix, next_id>>

\* The cleanup_session tool.
McpCleanupSession ==
    /\ pc = "mcp"
    /\ \E name \in NamesFor(suffix), exc \in BOOLEAN, quit_ok \in BOOLEAN :
          LET r == cleanup_session(sessions, screens, suffix, name,
                                   exc, quit_ok)
          IN  /\ sessions' = r.sessions
              /\ screens' = r.screens
              /\ last' = [op |-> "mcp_cleanup_session", name |-> name,
                          session_name |-> r.session_name,
                          success |-> r.ret]
    /\ UNCHANGED <<clsVars, hintVars, waitVars, suffix, working_dir, next_id>>

McpNext ==
    \/ McpCreateSession
    \/ McpCreateOrAttachSession
    \/ McpCleanupSession

McpSpec == McpInit /\ [][McpNext]_vars

(* ------------------------------- C25 ---------------------------------- *)

\* C25: a create_session tool call without working_dir creates the session
\* in the directory of the manager's construction, whatever working_dir
\* earlier calls supplied.
C25_DefaultDirKept ==
    (last.op = "mcp_create_session" /\ last.working_dir_arg = None
        /\ last.success)
        => /\ sessions[last.session_name].working_dir = Cwd
           /\ \A i \in 1..Len(last.stuffed) : last.stuffed[i] = CdCommand(Cwd)

(* ------------------------------- C26 ---------------------------------- *)

\* The positions of the list that hold a non-blank command.
NonBlankIdx == {i \in 1..Len(last.commands) : ~IsBlank(last.commands[i])}

\* The positions whose command was put into the session.
SentIdx == {last.stuffed[k].index + 1 : k \in 1..Len(last.stuffed)}

\* The positions reported in commands_failed.
FailedIdx ==
    {last.commands_failed[f].index + 1 : f \in 1..Len(last.commands_failed)}

AttemptedIdx == SentIdx \cup FailedIdx

C27_CompletedIffReady ==
    Returned
    => /\ result.completed <=> result.state \in ReadyStates
       /\ result.completed <=> is_ready_for_input(result.output)

(* ------------------------------- C28 ---------------------------------- *)

\* C28: wait_for_command_completion always returns, also when no capture
\* ever shows a prompt: a loop test at which the elapsed time is at least
\* max_wait leads to the return with one more capture and no further test,
\* the number of captures is bounded by max_wait, and with max_wait <= 0
\* exactly one capture is made.
C28_Terminates ==
    /\ <>Returned
    /\ [](Len(captures) <= (IF max_wait > 0 THEN max_wait ELSE 0) + 1)
    /\ []((Returned /\ max_wait <= 0) => Len(captures) = 1)
    /\ [][/\ (pc = "w_test" /\ now - start_time >= max_wait)
               => pc' = "w_timeout"
          /\ pc = "w_timeout"
               => (pc' = "w_return" /\ Len(captures') = Len(captures) + 1)
          /\ pc = "w_return" => pc' = "w_return"]_vars

\* A run that returned at the timeout without any capture showing a prompt.
C28_Witness ==
    /\ Returned
    /\ ~result.completed
    /\ Len(captures) >= 3
    /\ \A i \in 1..Len(captures) : ~IsReadyText(captures[i])

(* ------------------------------- C29 ---------------------------------- *)

\* The last call created a session.
LastCreated(l) ==
    /\ l.op \in CreatingOps
    /\ l.success
    /\ l.op = "create_or_attach_session" => l.action_taken = "create_new"

\* C29: after any sequence of calls on one manager a session name is
\* tracked iff a create_session for it succeeded and no cleanup_session for
\* it returned True since: a successful creation adds its normalized name,
\* a cleanup that returns True removes its normalized name, and no other
\* call (send_command and send_commands among them) adds or removes an
\* entry.  Every entry is keyed by a name ending in -<suffix> and its name
\* field is its key.
C29_TrackedIffCreated ==
    /\ [](\A k \in DOMAIN sessions :
             /\ EndsWith(k, <<"-">> \o suffix)
             /\ normalize_session_name(suffix, k) = k
             /\ sessions[k].name = k)
    /\ [][DOMAIN sessions' =
             IF LastCreated(last')
             THEN DOMAIN sessions \cup {last'.session_name}
             ELSE IF last'.op = "cleanup_session" /\ last'.success
             THEN DOMAIN sessions \ {last'.session_name}
             ELSE DOMAIN sessions]_vars

\* send_commands has put commands into a running session that is not
\* tracked any more, and the session is still not tracked.
C29_Witness ==
    /\ last.op = "send_commands"
    /\ last.success
    /\ Len(last.stuffed) >= 2
    /\ last.session_name \in screens
    /\ sessions = NoSessions

====
